---- MODULE Spec2Model ----
(***************************************************************************)
(* Model of the alumni LinkedIn scraping job:                              *)
(*   alumni_system/scraper/job.py       run_scraping_job and helpers       *)
(*   alumni_system/scraper/linkedin_scraper.py   LinkedInScraper           *)
(*   alumni_system/scraper/run.py       main (command-line runner)         *)
(*   alumni_system/database/crud.py     record-store operations            *)
(*   alumni_system/storage/b2_client.py upload_pdf_bytes (blob store)      *)
(* One behaviour is one run of main().  Calls into the record store, the   *)
(* browser and the blob store may raise; each outcome is a nondeterministic*)
(* choice.  Dates are whole days.  Spec is the whole run; AttemptSpec takes *)
(* one scrape_profile try extractor by extractor, HeadlineSpec the headline *)
(* parser, KeySpec the naming of uploaded PDFs.                            *)
(***************************************************************************)
EXTENDS Integers, Sequences, FiniteSets, TLC

\* ---------------------------------------------------------------- bounds
NumAlumni == 2
MaxHeadlineLen == 7
MAX_RETRIES == 2
UpdateThresholdDays == 2
MaxStoreFaults == 1
TicksPerSecond == 2
MaxUploads == 2

\* ------------------------------------------------------------- constants
NoDate == -1
MAX_FILE_SIZE_MB == 10
BytesPerMB == 1024 * 1024
NowDay == UpdateThresholdDays + 2
ExperienceCap == 10
EducationCap == 5

VARIABLES
    force_update,           \* run_scraping_job argument
    max_profiles,           \* run_scraping_job argument
    update_threshold_days,  \* run_scraping_job argument
    credentials,            \* get_linkedin_credentials(): which strings are non-empty
    max_retries,            \* scraper/config.py:30: the configured MAX_RETRIES
    alumni,                 \* the alumni table, by id
    logs,                   \* the scraping_logs table, in insertion order
    pc,                     \* position in main() / run_scraping_job()
    alumni_list,            \* job.py:61
    alumni_to_process,      \* job.py:67-72
    idx,                    \* position of the for loop of job.py:81
    stats,                  \* job.py:47-56
    scraper,                \* LinkedInScraper object state
    attempt,                \* loop variable of linkedin_scraper.py:147
    call_gotos,             \* history: profile page.goto calls of this scrape_profile call
    profile_data,           \* job.py:93
    exc,                    \* text of the exception being handled at job.py:129
    exit_code,              \* process exit status of run.py main()
    navigated,              \* history: page.goto has been called
    delay_due,              \* a page.goto was called and no _random_delay has run since
    rushed,                 \* history: a page.goto was called while delay_due
    login_tries,            \* history: number of login sequences started (past line 103)
    scrape_calls,           \* history: scrape_profile calls per alumni id
    checkpoint_hit,         \* history: a login landed on a checkpoint page
    config_errors,          \* history: number of credential ValueErrors raised
    aborted_at,             \* history: alumni id whose handling raised past job.py:129
    pdf_stored,             \* job.py:100
    pdf_bytes,              \* job.py:238: length of pdf_bytes, 0 for None
    b2_called,              \* history: this PDF step made a blob-store call
    blobs,                  \* blob store: alumni ids of the uploaded PDF objects, in order
    store_faults,           \* history: record-store and blob-store calls that raised
    exhausted,              \* history: alumni ids for which scrape_profile returned None
    counted,                \* history: per alumni id, the increments of successful / failed
    log_raised,             \* history: alumni ids for which a create_scraping_log call raised
    site,                   \* the remote site: what each alumni's profile page yields
    page,                   \* what self._page shows once a profile has loaded
    now,                    \* datetime.utcnow(), in ticks (b2_client.py:149)
    b2_files                \* the upload_pdf_bytes calls made: arguments, time, file name

vars == <<force_update, max_profiles, update_threshold_days, credentials,
          max_retries, alumni, logs, pc, alumni_list, alumni_to_process, idx,
          stats, scraper, attempt, call_gotos, profile_data, exc, exit_code,
          navigated, delay_due, rushed, login_tries,
          scrape_calls, checkpoint_hit, config_errors, aborted_at,
          pdf_stored, pdf_bytes, b2_called, blobs, store_faults, exhausted,
          counted, log_raised, site, page, now, b2_files>>

Ids == 1..NumAlumni

\* ------------------------------------------------------------ data model
\* models.py Alumni: only the columns the job reads or writes.
\* linkedin_url / linkedin_id: TRUE when the column holds a non-empty string.
\* Texts that the headline parser produces (current_designation,
\* current_company) are sequences of characters.
AlumniRow(url, lid, last) ==
    [linkedin_url |-> url, linkedin_id |-> lid, last_scraped_at |-> last,
     name |-> "old", current_company |-> <<"o">>,
     current_designation |-> <<"o">>, location |-> "old",
     corporate_email |-> "old", job_history |-> <<"j0">>,
     linkedin_pdf_url |-> "none"]

\* the rows the table is populated from: never scraped, neither
\* linkedin_url nor linkedin_id, scraped one day before the threshold date,
\* exactly on it, and update_threshold_days - 1 days ago
AlumniKinds ==
    << AlumniRow(TRUE,  FALSE, NoDate),
       AlumniRow(FALSE, FALSE, NoDate),
       AlumniRow(FALSE, TRUE,  NowDay - UpdateThresholdDays - 1),
       AlumniRow(TRUE,  TRUE,  NowDay - UpdateThresholdDays),
       AlumniRow(TRUE,  FALSE, NowDay - (UpdateThresholdDays - 1)) >>

\* the tables a run can start from: the first two rows take every pair of
\* kinds, and the rows after them continue with the same step through
\* AlumniKinds
AlumniTables ==
    LET n == Len(AlumniKinds)
    IN  { [i \in Ids |-> AlumniKinds[((k + d * (i - 1)) % n) + 1]] :
            k \in 0..(n - 1), d \in 0..(n - 1) }

NoProfile == [found |-> FALSE]

\* what one successful page extraction can return (linkedin_scraper.py:154-171),
\* a dict as the function of its keys (`found` stands for the keys
\* linkedin_url and scraped_at of lines 155-156): a page with every element
\* and two experience entries, and a page with none
FullProfile ==
    [found |-> TRUE, name |-> "new", headline |-> <<"t", " ", "a", "t", " ", "a">>,
     location |-> "new", current_designation |-> <<"t">>,
     current_company |-> <<"a">>, job_history |-> <<"j1", "j2">>,
     education_history |-> <<"e1">>, email |-> "new"]

BareProfile == [found |-> TRUE, job_history |-> << >>, education_history |-> << >>]

\* the remote site shows the two kinds of page on alternating alumni
Sites ==
    { [i \in Ids |-> IF i % 2 = 1 THEN FullProfile ELSE BareProfile],
      [i \in Ids |-> IF i % 2 = 1 THEN BareProfile ELSE FullProfile] }

\* the loaded profile page as the extractors see it: which elements the
\* selectors find, the texts they hold, and at which page operation each
\* extractor gets an exception
PageOf(name, has_headline, headline, location, experience, education, email, raises) ==
    [name |-> name, has_headline |-> has_headline, headline |-> headline,
     location |-> location, experience |-> experience,
     education |-> education, email |-> email, raises |-> raises]

NoFaults == [basic |-> "none", experience |-> "none", education |-> "none",
             contact |-> "none"]

InitStats ==
    [total_processed |-> 0, successful |-> 0, failed |-> 0, skipped |-> 0,
     pdfs_uploaded |-> 0, completed_at |-> FALSE, errors |-> << >>]

Init ==
    /\ force_update \in BOOLEAN
    /\ max_profiles \in 1..NumAlumni
    /\ update_threshold_days = UpdateThresholdDays
    /\ credentials \in [email : BOOLEAN, password : BOOLEAN]
    /\ max_retries \in {0, MAX_RETRIES}
    /\ alumni \in AlumniTables
    /\ site \in Sites
    /\ page = PageOf(FALSE, FALSE, << >>, FALSE, << >>, << >>, FALSE, NoFaults)
    /\ logs = << >>
    /\ pc = "start"
    /\ alumni_list = << >>
    /\ alumni_to_process = << >>
    /\ idx = 1
    /\ stats = InitStats
    /\ scraper = [started |-> FALSE, closed |-> FALSE, logged_in |-> FALSE]
    /\ attempt = 0
    /\ call_gotos = 0
    /\ profile_data = NoProfile
    /\ exc = "none"
    /\ exit_code = -1
    /\ navigated = FALSE
    /\ delay_due = FALSE
    /\ rushed = FALSE
    /\ login_tries = 0
    /\ scrape_calls = [i \in Ids |-> 0]
    /\ checkpoint_hit = FALSE
    /\ config_errors = 0
    /\ aborted_at = 0
    /\ pdf_stored = FALSE
    /\ pdf_bytes = 0
    /\ b2_called = FALSE
    /\ blobs = << >>
    /\ store_faults = 0
    /\ exhausted = {}
    /\ log_raised = {}
    /\ counted = [i \in Ids |-> [successful |-> 0, failed |-> 0]]
    /\ now = 0
    /\ b2_files = << >>

\* ------------------------------------------------------ pure helpers
\* crud.get_all_alumni(db, limit=max_profiles): the first `limit` rows
Min(a, b) == IF a < b THEN a ELSE b

\* the query without its limit
get_all_alumniMut(limit) == [i \in 1..NumAlumni |-> i]

get_all_alumni(limit) == [i \in 1..Min(limit, NumAlumni) |-> i]

\* the comparison of job.py:69 written with <= instead of <
IsStaleMut(a, threshold_date) ==
    a.last_scraped_at = NoDate \/ a.last_scraped_at <= threshold_date

\* job.py:69  `not a.last_scraped_at or a.last_scraped_at < threshold_date`
IsStale(a, threshold_date) ==
    a.last_scraped_at = NoDate \/ a.last_scraped_at < threshold_date

RECURSIVE FilterStale(_, _)
FilterStale(s, threshold_date) ==
    IF s = << >> THEN << >>
    ELSE LET rest == FilterStale(Tail(s), threshold_date)
         IN  IF IsStale(alumni[Head(s)], threshold_date)
             THEN <<Head(s)>> \o rest ELSE rest

\* job.py:84  `not alumni.linkedin_url and not alumni.linkedin_id`
HasNoIdentity(a) == ~a.linkedin_url /\ ~a.linkedin_id

\* the test of linkedin_scraper.py:102 written with `and` instead of `or`
CredentialsMissingMut(c) == ~c.email /\ ~c.password

\* linkedin_scraper.py:102  `not credentials["email"] or not credentials["password"]`
CredentialsMissing(c) == ~c.email \/ ~c.password

unchanged_inputs ==
    UNCHANGED <<force_update, max_profiles, update_threshold_days,
                credentials, max_retries, site, page, now, b2_files>>

\* a record-store or blob-store call may raise while the run's fault bound
\* is not used up
CanRaise == store_faults < MaxStoreFaults

Raises == CanRaise /\ store_faults' = store_faults + 1

NoRaise == store_faults' = store_faults

unchanged_browsing ==
    UNCHANGED <<navigated, delay_due, rushed, login_tries, scrape_calls,
                checkpoint_hit, config_errors>>

unchanged_history ==
    unchanged_browsing /\ UNCHANGED <<exhausted, counted, log_raised>>

JobErrorEntry == [alumni_id |-> 0, text |-> "Job error"]

\* run.py:98 testing the error list instead of the failed counter
ExitCodeMut(st) == IF Len(st.errors) > 0 THEN 1 ELSE 0

\* run.py:97-99: sys.exit(1) when stats['failed'] > 0, else fall off main().
\* run_scraping_job catches every Exception, so the handler of
\* run.py:101-103 gets nothing to catch.
ExitCode(st) == IF st.failed > 0 THEN 1 ELSE 0

\* job.py:144-145 (or line 76-77), then run.py:77-99: the statistics st are
\* stamped and returned to main(), which reports them and exits
ReturnAndExit(st) ==
    /\ stats' = [st EXCEPT !.completed_at = TRUE]
    /\ exit_code' = ExitCode(st)
    /\ pc' = "exited"

\* the outer handler re-raising instead of returning: the run ends without
\* its statistics
TopLevelErrorMut ==
    /\ stats' = [stats EXCEPT !.errors = Append(@, JobErrorEntry)]
    /\ exit_code' = 1
    /\ pc' = "crashed"

\* the outer handler counting the error as a failed candidate as well
TopLevelErrorCountsMut ==
    ReturnAndExit([stats EXCEPT !.errors = Append(@, JobErrorEntry),
                                !.failed = @ + 1])

\* job.py:141-145: an exception reached the outer handler
TopLevelError ==
    ReturnAndExit([stats EXCEPT !.errors = Append(@, JobErrorEntry)])

\* the loop body ended without an exception leaving it: on to the next
\* candidate.  The body's locals (profile_data, pdf_stored, e, and the
\* scraper's attempt) are assigned again before they are next read; they
\* are cleared here.
NextCandidate ==
    /\ idx' = idx + 1
    /\ pc' = "loop"
    /\ attempt' = 0
    /\ call_gotos' = 0
    /\ profile_data' = NoProfile
    /\ pdf_stored' = FALSE
    /\ pdf_bytes' = 0
    /\ b2_called' = FALSE
    /\ exc' = "none"

\* the early return without its skipped count
NothingToDoStatsMut(st, lst) == [st EXCEPT !.completed_at = TRUE]

\* job.py:75-76: the statistics of a run with nothing to process
NothingToDoStats(st, lst) ==
    [st EXCEPT !.skipped = Len(lst), !.completed_at = TRUE]

\* ------------------------------------------------------------- actions
\* job.py:58-77: open the session, list candidates, filter, early return
SelectCandidates ==
    /\ pc = "start"
    /\ \/ \* SessionLocal() or the query raises
          /\ Raises
          /\ TopLevelError
          /\ UNCHANGED <<alumni_list, alumni_to_process>>
       \/ LET lst == get_all_alumni(max_profiles)
              threshold_date == NowDay - update_threshold_days
              todo == IF ~force_update THEN FilterStale(lst, threshold_date) ELSE lst
          IN  /\ NoRaise
              /\ alumni_list' = lst
              /\ alumni_to_process' = todo
              /\ IF todo = << >>
                 THEN /\ stats' = NothingToDoStats(stats, lst)
                      /\ pc' = "commit_return"
                 ELSE /\ stats' = stats
                      /\ pc' = "scraper_start"
              /\ exit_code' = exit_code
    /\ UNCHANGED <<alumni, logs, idx, scraper, attempt, call_gotos,
                   profile_data, exc, aborted_at, pdf_stored, pdf_bytes,
                   b2_called, blobs>>
    /\ unchanged_inputs /\ unchanged_history

\* job.py:80 `async with LinkedInScraper()`: __aenter__ -> start()
ScraperStart ==
    /\ pc = "scraper_start"
    /\ NoRaise
    /\ \/ /\ scraper' = [scraper EXCEPT !.started = TRUE]
          /\ pc' = "loop"
          /\ UNCHANGED <<stats, exit_code>>
       \/ \* playwright / browser launch raises
          /\ scraper' = scraper
          /\ TopLevelError
    /\ UNCHANGED <<alumni, logs, alumni_list, alumni_to_process, idx, attempt,
                   call_gotos, profile_data, exc, aborted_at, pdf_stored,
                   pdf_bytes, b2_called, blobs>>
    /\ unchanged_inputs /\ unchanged_history

\* job.py:81-89: head of the for loop, counting and the identity check
LoopHead ==
    /\ pc = "loop"
    /\ NoRaise
    /\ IF idx > Len(alumni_to_process)
       THEN /\ pc' = "scraper_close"
            /\ UNCHANGED <<stats, idx>>
       ELSE IF HasNoIdentity(alumni[alumni_to_process[idx]])
            THEN /\ stats' = [stats EXCEPT !.total_processed = @ + 1,
                                           !.skipped = @ + 1]
                 /\ idx' = idx + 1
                 /\ pc' = "loop"
            ELSE /\ stats' = [stats EXCEPT !.total_processed = @ + 1]
                 /\ idx' = idx
                 /\ pc' = "scrape"
    /\ UNCHANGED <<alumni, logs, alumni_list, alumni_to_process, scraper,
                   attempt, call_gotos, profile_data, exc, pdf_stored,
                   pdf_bytes, b2_called, exit_code, aborted_at, blobs>>
    /\ unchanged_inputs /\ unchanged_history

\* the pacing of requests: the effect of a sequence of "goto" and "delay"
\* events on delay_due and rushed
RECURSIVE Pace(_, _, _)
Pace(events, due, hasty) ==
    IF events = << >> THEN [due |-> due, rushed |-> hasty]
    ELSE IF Head(events) = "delay" THEN Pace(Tail(events), FALSE, hasty)
    ELSE Pace(Tail(events), TRUE, hasty \/ due)

Paced(events) ==
    LET p == Pace(events, delay_due, rushed)
    IN  delay_due' = p.due /\ rushed' = p.rushed

\* range(MAX_RETRIES) running one pass too many
HasPassMut(k) == k <= max_retries

\* linkedin_scraper.py:147  `for attempt in range(MAX_RETRIES)`: the loop
\* has a pass numbered k (from 0)
HasPass(k) == k < max_retries

\* linkedin_scraper.py:147,179: enter the retry loop, or fall through it
RetryLoopEntry == IF HasPass(0) THEN "try" ELSE "scrape_none"

\* the session test always passing
AlwaysLoggedInMut(s) == TRUE

\* the session test with the flag never consulted
AlreadyLoggedInMut(s) == FALSE

\* linkedin_scraper.py:98 and 143: `self._logged_in`
AlreadyLoggedIn(s) == s.logged_in

\* job.py:93 -> scrape_profile lines 143-145 -> login lines 91-131
ScrapeProfile ==
    /\ pc = "scrape"
    /\ NoRaise
    /\ scrape_calls' = [scrape_calls EXCEPT ![alumni_to_process[idx]] = @ + 1]
    /\ attempt' = 0
    /\ call_gotos' = 0
    /\ IF AlreadyLoggedIn(scraper)
       THEN /\ pc' = RetryLoopEntry
            /\ UNCHANGED <<scraper, exc, navigated, delay_due, rushed,
                           login_tries, checkpoint_hit, config_errors>>
       ELSE IF CredentialsMissing(credentials)
       THEN \* line 103: ValueError, raised outside login's try
            /\ exc' = "LinkedIn credentials not configured"
            /\ config_errors' = config_errors + 1
            /\ pc' = "except"
            /\ UNCHANGED <<scraper, navigated, delay_due, rushed, login_tries,
                           checkpoint_hit>>
       ELSE \* lines 105-131: goto login page, delay, fill, click, classify
            \* the url
            /\ navigated' = TRUE
            /\ login_tries' = login_tries + 1
            /\ config_errors' = config_errors
            /\ \/ \* url has "feed" / "mynetwork"
                  /\ Paced(<<"goto", "delay">>)
                  /\ scraper' = [scraper EXCEPT !.logged_in = TRUE]
                  /\ pc' = RetryLoopEntry
                  /\ UNCHANGED <<exc, checkpoint_hit>>
               \/ \* url has "checkpoint": raise, caught at line 129, return False
                  /\ Paced(<<"goto", "delay">>)
                  /\ checkpoint_hit' = TRUE
                  /\ exc' = "Failed to login to LinkedIn"
                  /\ pc' = "except"
                  /\ scraper' = scraper
               \/ \* any other url, or fill / click / wait raised: return False
                  /\ Paced(<<"goto", "delay">>)
                  /\ exc' = "Failed to login to LinkedIn"
                  /\ pc' = "except"
                  /\ UNCHANGED <<scraper, checkpoint_hit>>
               \/ \* the goto of line 107 raised: return False
                  /\ Paced(<<"goto">>)
                  /\ exc' = "Failed to login to LinkedIn"
                  /\ pc' = "except"
                  /\ UNCHANGED <<scraper, checkpoint_hit>>
    /\ UNCHANGED <<alumni, logs, alumni_list, alumni_to_process, idx, stats,
                   profile_data, exit_code, aborted_at, pdf_stored, pdf_bytes,
                   b2_called, blobs, exhausted, counted, log_raised>>
    /\ unchanged_inputs

\* linkedin_scraper.py:147-177: one pass of the retry loop
TryProfile ==
    /\ pc = "try"
    /\ NoRaise
    /\ navigated' = TRUE
    /\ call_gotos' = call_gotos + 1
    /\ \/ \* the page loads and is extracted (lines 149-171)
          /\ Paced(<<"delay", "goto">>)
          /\ profile_data' = site[alumni_to_process[idx]]
          /\ pc' = "update"
          /\ attempt' = attempt
       \/ \* goto / wait_for_load_state raised (lines 173-177)
          /\ Paced(IF attempt < max_retries - 1
                   THEN <<"delay", "goto", "delay">>
                   ELSE <<"delay", "goto">>)
          /\ attempt' = attempt + 1
          /\ pc' = IF HasPass(attempt + 1) THEN "try" ELSE "scrape_none"
          /\ profile_data' = profile_data
    /\ UNCHANGED <<alumni, logs, alumni_list, alumni_to_process, idx, stats,
                   scraper, exc, exit_code, aborted_at, pdf_stored, pdf_bytes,
                   b2_called, blobs, login_tries, scrape_calls,
                   checkpoint_hit, config_errors, exhausted, counted,
                   log_raised>>
    /\ unchanged_inputs

\* a log row that always reports the PDF as stored
LogRowMut(id, status, stored, message) ==
    [alumni_id |-> id, status |-> status, pdf_stored |-> TRUE,
     error_message |-> message]

\* crud.create_scraping_log: the row that a committed call appends
LogRow(id, status, stored, message) ==
    [alumni_id |-> id, status |-> status, pdf_stored |-> stored,
     error_message |-> message]

\* crud.py:389-393: the call returns ("ok"), raises in add/commit so that no
\* row is written ("lost"), or raises in db.refresh after the commit
\* ("refresh_error")
LogOutcomes == {"ok", "lost", "refresh_error"}

RowWritten(o) == o # "lost"

LogRaised(o) == o # "ok"

\* the effect of one create_scraping_log call on the table and the fault count
CreateScrapingLog(o, row) ==
    /\ IF LogRaised(o) THEN Raises ELSE NoRaise
    /\ logs' = IF RowWritten(o) THEN Append(logs, row) ELSE logs
    /\ log_raised' = IF LogRaised(o) THEN log_raised \cup {row.alumni_id}
                     ELSE log_raised

\* job.py:118-127: scrape_profile returned None
ScrapeReturnedNone ==
    /\ pc = "scrape_none"
    /\ stats' = [stats EXCEPT !.failed = @ + 1]
    /\ exhausted' = exhausted \cup {alumni_to_process[idx]}
    /\ counted' = [counted EXCEPT ![alumni_to_process[idx]].failed = @ + 1]
    /\ \E o \in LogOutcomes :
          /\ CreateScrapingLog(o, LogRow(alumni_to_process[idx], "failed", FALSE,
                                         "Failed to scrape profile data"))
          /\ IF LogRaised(o)
             THEN \* raised inside the try of line 91
                  /\ exc' = "record store error"
                  /\ pc' = "except"
                  /\ UNCHANGED <<idx, attempt, call_gotos, profile_data,
                                 pdf_stored, pdf_bytes, b2_called>>
             ELSE NextCandidate
    /\ UNCHANGED <<alumni, alumni_list, alumni_to_process, scraper,
                   exit_code, aborted_at, blobs>>
    /\ unchanged_inputs /\ unchanged_browsing

\* the email written whether or not the extraction has one
ScalarUpdateMut(a, d) ==
    [a EXCEPT !.last_scraped_at = NowDay,
              !.name = IF "name" \in DOMAIN d THEN d.name ELSE @,
              !.current_company =
                  IF "current_company" \in DOMAIN d THEN d.current_company ELSE @,
              !.current_designation =
                  IF "current_designation" \in DOMAIN d
                  THEN d.current_designation ELSE @,
              !.location = IF "location" \in DOMAIN d THEN d.location ELSE @,
              !.corporate_email = IF "email" \in DOMAIN d THEN d.email ELSE "None"]

\* job.py:161-177: the scalar update of _update_alumni_from_profile
ScalarUpdate(a, d) ==
    [a EXCEPT !.last_scraped_at = NowDay,
              !.name = IF "name" \in DOMAIN d THEN d.name ELSE @,
              !.current_company =
                  IF "current_company" \in DOMAIN d THEN d.current_company ELSE @,
              !.current_designation =
                  IF "current_designation" \in DOMAIN d
                  THEN d.current_designation ELSE @,
              !.location = IF "location" \in DOMAIN d THEN d.location ELSE @,
              !.corporate_email = IF "email" \in DOMAIN d THEN d.email ELSE @]

\* job.py:179-197: history after k create_job_history calls have committed
\* (the deletes are committed by the first create_job_history commit; with
\* an empty extracted list nothing is deleted)
JobHistoryAfter(a, d, k) ==
    IF d.job_history = << >> \/ k = 0 THEN a.job_history
    ELSE SubSeq(d.job_history, 1, k)

\* job.py:97 -> _update_alumni_from_profile (lines 161-216)
UpdateAlumni ==
    /\ pc = "update"
    /\ LET id == alumni_to_process[idx]
           a == alumni[id]
           d == profile_data
       IN  \/ \* update_alumni raises before its commit: nothing is written
              /\ Raises
              /\ alumni' = alumni
              /\ exc' = "record store error"
              /\ pc' = "except"
           \/ \* the scalars and k history rows are committed, then a call
              \* raises: db.refresh of update_alumni or of the k-th
              \* create_job_history, the flush of line 184, or add/commit of
              \* the k+1-th create_job_history
              \E k \in 0..Len(d.job_history) :
                 /\ Raises
                 /\ alumni' = [alumni EXCEPT ![id] =
                        [ScalarUpdate(a, d) EXCEPT
                            !.job_history = JobHistoryAfter(a, d, k)]]
                 /\ exc' = "record store error"
                 /\ pc' = "except"
           \/ \* everything committed
              /\ NoRaise
              /\ alumni' = [alumni EXCEPT ![id] =
                     [ScalarUpdate(a, d) EXCEPT
                         !.job_history = JobHistoryAfter(a, d, Len(d.job_history))]]
              /\ exc' = exc
              /\ pc' = "pdf"
    /\ UNCHANGED <<logs, alumni_list, alumni_to_process, idx, stats, scraper,
                   attempt, call_gotos, profile_data, exit_code, aborted_at,
                   pdf_stored, pdf_bytes, b2_called, blobs>>
    /\ unchanged_inputs /\ unchanged_history

\* lengths of the PDF that download_profile_pdf returns: 0 when it returns
\* None (linkedin_scraper.py:435-437), and lengths around the size limit
PdfSizes ==
    {0, MAX_FILE_SIZE_MB * BytesPerMB - 1, MAX_FILE_SIZE_MB * BytesPerMB,
     MAX_FILE_SIZE_MB * BytesPerMB + 1}

\* the size check of b2_client.py:142-143 written with floor division
TooLargeMut(n) == (n \div BytesPerMB) > MAX_FILE_SIZE_MB

\* b2_client.py:142-143  `len(pdf_bytes) / (1024 * 1024) > MAX_FILE_SIZE_MB`;
\* the float quotient by a power of two is exact, so this is the integer
\* comparison
TooLarge(n) == n > MAX_FILE_SIZE_MB * BytesPerMB

\* outcomes of _store_profile_pdf (job.py:237-257): download_profile_pdf
\* returned None; the size check of b2_client.py:143 raised; authorize /
\* get_bucket / upload_bytes raised; get_download_url_for_fileid raised;
\* update_alumni raised before / after its commit; True was returned
PdfOutcomes ==
    {"no_pdf", "too_large", "upload_error", "url_error", "update_error",
     "update_refresh_error", "stored"}

\* the outcomes a PDF of n bytes can have
PdfOutcomesFor(n) ==
    IF n = 0 THEN {"no_pdf"}
    ELSE IF TooLarge(n) THEN {"too_large"}
    ELSE PdfOutcomes \ {"no_pdf", "too_large"}

\* outcomes in which a blob-store or record-store call raised
PdfStoreRaised(o) ==
    o \in {"upload_error", "url_error", "update_error", "update_refresh_error"}

\* b2_client.py:153: outcomes in which _get_bucket was reached
BlobStoreCalled(o) == o \notin {"no_pdf", "too_large"}

\* b2_client.py:152-158: outcomes in which bucket.upload_bytes has completed
BlobUploaded(o) ==
    o \in {"url_error", "update_error", "update_refresh_error", "stored"}

\* crud.py:179-180: outcomes in which linkedin_pdf_url has been committed
PdfUrlCommitted(o) == o \in {"update_refresh_error", "stored"}

\* job.py:99-106: store the PDF, count it, count the success.  The step is
\* only reached from a scrape_profile call that returned data, so the
\* session test of linkedin_scraper.py:412 passes and download_profile_pdf
\* goes straight to its delay and goto (lines 417-418).
StoreProfilePdf ==
    /\ pc = "pdf"
    /\ navigated' = TRUE
    /\ Paced(<<"delay", "goto">>)
    /\ \E n \in PdfSizes : \E o \in PdfOutcomesFor(n) :
          LET id == alumni_to_process[idx]
              ok == (o = "stored")
          IN  /\ IF PdfStoreRaised(o) THEN Raises ELSE NoRaise
              /\ pdf_bytes' = n
              /\ b2_called' = BlobStoreCalled(o)
              /\ blobs' = IF BlobUploaded(o) THEN Append(blobs, id) ELSE blobs
              /\ alumni' = IF PdfUrlCommitted(o)
                           THEN [alumni EXCEPT ![id].linkedin_pdf_url = "url"]
                           ELSE alumni
              /\ pdf_stored' = ok
              /\ stats' = [stats EXCEPT
                     !.pdfs_uploaded = IF ok THEN @ + 1 ELSE @,
                     !.successful = @ + 1]
    /\ counted' = [counted EXCEPT ![alumni_to_process[idx]].successful = @ + 1]
    /\ pc' = "log_success"
    /\ UNCHANGED <<logs, alumni_list, alumni_to_process, idx, scraper,
                   attempt, call_gotos, profile_data, exc, exit_code,
                   aborted_at, login_tries, scrape_calls, checkpoint_hit,
                   config_errors, exhausted, log_raised>>
    /\ unchanged_inputs

\* job.py:108-117
LogSuccess ==
    /\ pc = "log_success"
    /\ \E o \in LogOutcomes :
          /\ CreateScrapingLog(o, LogRow(alumni_to_process[idx], "success",
                                         pdf_stored, "none"))
          /\ IF LogRaised(o)
             THEN \* raised inside the try of line 91
                  /\ exc' = "record store error"
                  /\ pc' = "except"
                  /\ UNCHANGED <<idx, attempt, call_gotos, profile_data,
                                 pdf_stored, pdf_bytes, b2_called>>
             ELSE NextCandidate
    /\ UNCHANGED <<alumni, alumni_list, alumni_to_process, stats, scraper,
                   exit_code, aborted_at, blobs>>
    /\ unchanged_inputs /\ unchanged_browsing
    /\ UNCHANGED <<exhausted, counted>>

\* job.py:129-139: the per-candidate exception handler
CandidateExcept ==
    /\ pc = "except"
    /\ LET id == alumni_to_process[idx]
       IN  /\ stats' = [stats EXCEPT
                  !.failed = @ + 1,
                  !.errors = Append(@, [alumni_id |-> id, text |-> exc])]
           /\ counted' = [counted EXCEPT ![id].failed = @ + 1]
           /\ exhausted' = exhausted
           /\ \E o \in LogOutcomes :
                 /\ CreateScrapingLog(o, LogRow(id, "failed", FALSE, exc))
                 /\ IF LogRaised(o)
                    THEN \* raised inside the handler: leaves the loop
                         /\ aborted_at' = id
                         /\ pc' = "abort"
                         /\ exc' = "record store error"
                         /\ UNCHANGED <<idx, attempt, call_gotos,
                                        profile_data, pdf_stored, pdf_bytes,
                                        b2_called>>
                    ELSE /\ aborted_at' = aborted_at
                         /\ NextCandidate
    /\ UNCHANGED <<alumni, alumni_list, alumni_to_process, scraper,
                   exit_code, blobs>>
    /\ unchanged_inputs /\ unchanged_browsing

\* job.py:80 and 59 after the loop: __aexit__ -> close(), then the commit
\* of connection.py:62, then job.py:144-145 and the end of main()
LeaveLoop ==
    /\ pc = "scraper_close"
    /\ \/ /\ NoRaise
          /\ scraper' = [scraper EXCEPT !.closed = TRUE]
          /\ ReturnAndExit(stats)
       \/ \* page.close() raises
          /\ NoRaise
          /\ scraper' = scraper
          /\ TopLevelError
       \/ \* db.commit() raises
          /\ Raises
          /\ scraper' = [scraper EXCEPT !.closed = TRUE]
          /\ TopLevelError
    /\ UNCHANGED <<alumni, logs, alumni_list, alumni_to_process, idx, attempt,
                   call_gotos, profile_data, exc, aborted_at, pdf_stored,
                   pdf_bytes, b2_called, blobs>>
    /\ unchanged_inputs /\ unchanged_history

\* an exception leaves the loop: __aexit__ -> close(), which may raise in
\* turn, the rollback of connection.py:63-65, then job.py:141-145
AbortLoop ==
    /\ pc = "abort"
    /\ NoRaise
    /\ \/ scraper' = [scraper EXCEPT !.closed = TRUE]
       \/ scraper' = scraper
    /\ TopLevelError
    /\ UNCHANGED <<alumni, logs, alumni_list, alumni_to_process, idx, attempt,
                   call_gotos, profile_data, exc, aborted_at, pdf_stored,
                   pdf_bytes, b2_called, blobs>>
    /\ unchanged_inputs /\ unchanged_history

\* job.py:74-77: `return stats` from inside `with get_db_context()`, whose
\* commit (connection.py:62) may raise into job.py:141
ReturnNothingToDo ==
    /\ pc = "commit_return"
    /\ \/ /\ NoRaise
          /\ ReturnAndExit(stats)
       \/ /\ Raises
          /\ TopLevelError
    /\ UNCHANGED <<alumni, logs, alumni_list, alumni_to_process, idx, scraper,
                   attempt, call_gotos, profile_data, exc, aborted_at,
                   pdf_stored, pdf_bytes, b2_called, blobs>>
    /\ unchanged_inputs /\ unchanged_history

Next ==
    \/ SelectCandidates
    \/ ScraperStart
    \/ LoopHead
    \/ ScrapeProfile
    \/ TryProfile
    \/ ScrapeReturnedNone
    \/ UpdateAlumni
    \/ StoreProfilePdf
    \/ LogSuccess
    \/ CandidateExcept
    \/ LeaveLoop
    \/ AbortLoop
    \/ ReturnNothingToDo

Spec == Init /\ [][Next]_vars

\* the job is one sequential coroutine: a step that can be taken is taken
\* (page operations time out, delays are finite, record-store and blob-store
\* calls return or raise).  Runs are taken against one remote site, on which
\* both kinds of page occur.
FairInit ==
    /\ Init
    /\ site = [i \in Ids |-> IF i % 2 = 1 THEN FullProfile ELSE BareProfile]

FairSpec == FairInit /\ [][Next]_vars /\ WF_vars(Next)

\* ===================================================================
\* One scrape_profile try in detail (linkedin_scraper.py:147-177): the page
\* loads, the four extractors run one after the other on it, the dict is
\* returned to job.py:93 and the record is updated from it
\* ===================================================================
\* the characters headlines are made of: a space, two lower-case letters
\* and an upper-case one
Chars == {" ", "a", "t", "T"}

Headlines == UNION { [1..k -> Chars] : k \in 0..MaxHeadlineLen }

\* str.lower()
Lower(s) == [k \in 1..Len(s) |-> IF s[k] = "T" THEN "t" ELSE s[k]]

\* the separator of linkedin_scraper.py:205-206
Separator == <<" ", "a", "t", " ">>

\* the positions at which sep occurs in s
Occurrences(s, sep) ==
    { k \in 1..(Len(s) - Len(sep) + 1) : SubSeq(s, k, k + Len(sep) - 1) = sep }

\* `sep in s`
Contains(s, sep) == Occurrences(s, sep) # {}

Max(S) == CHOOSE x \in S : \A y \in S : y <= x

\* a split at the last occurrence of the separator
SplitOnceMut(s, sep) ==
    IF ~Contains(s, sep) THEN <<s>>
    ELSE LET k == Max(Occurrences(s, sep))
         IN  <<SubSeq(s, 1, k - 1), SubSeq(s, k + Len(sep), Len(s))>>

\* s.split(sep, 1): the text before the first occurrence of sep and the
\* text after it, or s alone when sep does not occur
SplitOnce(s, sep) ==
    IF ~Contains(s, sep) THEN <<s>>
    ELSE LET k == CHOOSE i \in Occurrences(s, sep) :
                      \A j \in Occurrences(s, sep) : i <= j
         IN  <<SubSeq(s, 1, k - 1), SubSeq(s, k + Len(sep), Len(s))>>

\* str.strip(): leading and trailing white space removed
RECURSIVE Strip(_)
Strip(s) ==
    IF s = << >> THEN s
    ELSE IF Head(s) = " " THEN Strip(Tail(s))
    ELSE IF s[Len(s)] = " " THEN Strip(SubSeq(s, 1, Len(s) - 1))
    ELSE s

\* a dict without keys
EmptyDict == << >>

\* linkedin_scraper.py:204-209: the keys the headline adds
ParseHeadline(headline) ==
    IF Contains(Lower(headline), Separator)
    THEN LET parts == SplitOnce(headline, Separator)
         IN  IF Len(parts) = 2
             THEN [current_designation |-> Strip(parts[1]),
                   current_company |-> Strip(parts[2])]
             ELSE EmptyDict
    ELSE EmptyDict

\* linkedin_scraper.py:181-214: the dict _extract_basic_info returns.  An
\* exception at the name, headline or location element (lines 187-200) ends
\* the try block with the keys set so far (lines 211-214).
extract_basic_info(p) ==
    LET d1 == IF p.name THEN [name |-> "new"] ELSE EmptyDict
        d2 == IF p.has_headline THEN [headline |-> p.headline] @@ d1 ELSE d1
        d3 == IF p.location THEN [location |-> "new"] @@ d2 ELSE d2
        d4 == IF "headline" \in DOMAIN d3
              THEN ParseHeadline(d3.headline) @@ d3 ELSE d3
    IN  CASE p.raises.basic = "name" -> EmptyDict
          [] p.raises.basic = "headline" -> d1
          [] p.raises.basic = "location" -> d2
          [] OTHER -> d4

\* the first cap entries of a list (`items[:cap]`)
FirstN(items, cap) == SubSeq(items, 1, Min(cap, Len(items)))

\* linkedin_scraper.py:216-267: an exception at the section (lines 222-227)
\* gives the empty list, an exception inside the first item (lines 230-262)
\* drops that item
extract_experience(p) ==
    CASE p.raises.experience = "section" -> << >>
      [] p.raises.experience = "item" /\ p.experience # << >> ->
             Tail(FirstN(p.experience, ExperienceCap))
      [] OTHER -> FirstN(p.experience, ExperienceCap)

\* linkedin_scraper.py:269-317
extract_education(p) ==
    CASE p.raises.education = "section" -> << >>
      [] OTHER -> FirstN(p.education, EducationCap)

\* linkedin_scraper.py:319-346: an exception at the contact link (lines
\* 325-327) gives no key; one at the Dismiss button (lines 339-341) comes
\* after the email was read
extract_contact_info(p) ==
    IF p.raises.contact = "click" THEN EmptyDict
    ELSE IF p.email THEN [email |-> "new"] ELSE EmptyDict

\* the pages a profile can load as
ExtractorFaults ==
    [basic : {"none", "name", "headline", "location"},
     experience : {"none", "section", "item"},
     education : {"none", "section"},
     contact : {"none", "click", "dismiss"}]

PageHeadlines ==
    { <<FALSE, << >> >>, <<TRUE, <<"t", " ", "a", "t", " ", "a">> >>,
      <<TRUE, <<"T">> >> }

Pages ==
    { PageOf(n, h[1], h[2], l, x, e, m, f) :
        n \in BOOLEAN, h \in PageHeadlines, l \in BOOLEAN,
        x \in {<< >>, <<"j1", "j2">>}, e \in {<< >>, <<"e1">>},
        m \in BOOLEAN, f \in ExtractorFaults }

\* pages with nothing but a headline
HeadlinePages ==
    { PageOf(FALSE, TRUE, h, FALSE, << >>, << >>, FALSE, NoFaults) :
        h \in Headlines }

\* the run has selected alumni 1 (never scraped, with a linkedin_url),
\* started the browser, logged in and entered the retry loop of
\* scrape_profile; the profile will load as one of pages
AttemptAt(pages) ==
    /\ force_update = FALSE
    /\ max_profiles = 1
    /\ update_threshold_days = UpdateThresholdDays
    /\ credentials = [email |-> TRUE, password |-> TRUE]
    /\ max_retries = MAX_RETRIES
    /\ alumni = [i \in Ids |-> AlumniKinds[1]]
    /\ site = [i \in Ids |-> IF i % 2 = 1 THEN FullProfile ELSE BareProfile]
    /\ page \in pages
    /\ logs = << >>
    /\ pc = "try"
    /\ alumni_list = <<1>>
    /\ alumni_to_process = <<1>>
    /\ idx = 1
    /\ stats = [InitStats EXCEPT !.total_processed = 1]
    /\ scraper = [started |-> TRUE, closed |-> FALSE, logged_in |-> TRUE]
    /\ attempt = 0
    /\ call_gotos = 0
    /\ profile_data = NoProfile
    /\ exc = "none"
    /\ exit_code = -1
    /\ navigated = TRUE
    /\ delay_due = FALSE
    /\ rushed = FALSE
    /\ login_tries = 1
    /\ scrape_calls = [i \in Ids |-> IF i = 1 THEN 1 ELSE 0]
    /\ checkpoint_hit = FALSE
    /\ config_errors = 0
    /\ aborted_at = 0
    /\ pdf_stored = FALSE
    /\ pdf_bytes = 0
    /\ b2_called = FALSE
    /\ blobs = << >>
    /\ store_faults = 0
    /\ exhausted = {}
    /\ log_raised = {}
    /\ counted = [i \in Ids |-> [successful |-> 0, failed |-> 0]]
    /\ now = 0
    /\ b2_files = << >>

AttemptInit == AttemptAt(Pages)

\* linkedin_scraper.py:173-177: the handler of the try; events are the
\* page events of the try before the exception
TryRaised(events) ==
    /\ Paced(IF attempt < max_retries - 1 THEN Append(events, "delay")
             ELSE events)
    /\ attempt' = attempt + 1
    /\ pc' = IF HasPass(attempt + 1) THEN "try" ELSE "scrape_none"
    /\ profile_data' = NoProfile

unchanged_by_try ==
    UNCHANGED <<alumni, logs, alumni_list, alumni_to_process, idx, stats,
                scraper, exc, exit_code, aborted_at, pdf_stored, pdf_bytes,
                b2_called, blobs, login_tries, scrape_calls, checkpoint_hit,
                config_errors, exhausted, counted, log_raised>>

\* linkedin_scraper.py:149-157: delay, goto, wait, and the new dict
LoadPage ==
    /\ pc = "try"
    /\ NoRaise
    /\ navigated' = TRUE
    /\ call_gotos' = call_gotos + 1
    /\ \/ /\ Paced(<<"delay", "goto">>)
          /\ profile_data' = [found |-> TRUE]
          /\ pc' = "extract_basic"
          /\ attempt' = attempt
       \/ TryRaised(<<"delay", "goto">>)
    /\ unchanged_by_try
    /\ unchanged_inputs

\* every extractor letting its exception out to line 173
ExtractorRaisesMut(part) == page.raises[part] # "none"

\* linkedin_scraper.py:211, 264, 314, 343: each extractor ends in
\* `except Exception` and returns what it has, so none raises
ExtractorRaises(part) == FALSE

\* one of lines 160-169: the extractor of part returns data, which is
\* merged into the dict
ExtractPart(at, part, data, next) ==
    /\ pc = at
    /\ NoRaise
    /\ IF ExtractorRaises(part)
       THEN TryRaised(<< >>)
       ELSE /\ profile_data' = data
            /\ pc' = next
            /\ UNCHANGED <<attempt, delay_due, rushed>>
    /\ UNCHANGED <<navigated, call_gotos>>
    /\ unchanged_by_try
    /\ unchanged_inputs

\* linkedin_scraper.py:160
ExtractBasicInfo ==
    ExtractPart("extract_basic", "basic",
                extract_basic_info(page) @@ profile_data, "extract_experience")

\* linkedin_scraper.py:163
ExtractExperience ==
    ExtractPart("extract_experience", "experience",
                [job_history |-> extract_experience(page)] @@ profile_data,
                "extract_education")

\* linkedin_scraper.py:166
ExtractEducation ==
    ExtractPart("extract_education", "education",
                [education_history |-> extract_education(page)] @@ profile_data,
                "extract_contact")

\* linkedin_scraper.py:169-171, job.py:93-97: the dict is returned and is
\* truthy
ExtractContactInfo ==
    ExtractPart("extract_contact", "contact",
                extract_contact_info(page) @@ profile_data, "update")

AttemptNext ==
    \/ LoadPage
    \/ ExtractBasicInfo
    \/ ExtractExperience
    \/ ExtractEducation
    \/ ExtractContactInfo
    \/ UpdateAlumni

AttemptSpec == AttemptInit /\ [][AttemptNext]_vars

\* the headline parser on its own: the basic-info extractor on pages with
\* every headline of up to MaxHeadlineLen characters
HeadlineInit == AttemptAt(HeadlinePages)

HeadlineNext == LoadPage \/ ExtractBasicInfo

HeadlineSpec == HeadlineInit /\ [][HeadlineNext]_vars

\* ===================================================================
\* The artifact key of upload_pdf_bytes (b2_client.py:148-150), on its own:
\* uploads at chosen times, with the job at rest in one initial state
\* ===================================================================
\* storage/config.py:31
PDF_FOLDER_PREFIX == "linkedin_pdfs/"

\* the seconds at which uploads happen: around the turn of a minute, of an
\* hour and of a day
UploadSeconds == {0, 1, 59, 60, 3599, 3600, 86399, 86400}

UploadTimes ==
    {sec * TicksPerSecond + f : sec \in UploadSeconds, f \in 0..(TicksPerSecond - 1)}

\* the identities uploads are made for: alumni.id, and alumni.linkedin_id or
\* alumni.roll_number (job.py:243)
UploadIdentities == {<<1, "jdoe">>, <<1, "r17">>, <<2, "jdoe">>}

\* strftime("%Y%m%d_%H%M") : the stamp without its seconds
StrftimeMut(t) ==
    LET sec == t \div TicksPerSecond
    IN  <<sec \div 86400, "_", (sec \div 3600) % 24, (sec \div 60) % 60>>

\* b2_client.py:149  datetime.utcnow().strftime("%Y%m%d_%H%M%S"): the date
\* (as a day number), then hour, minute and second; the fraction of the
\* second is dropped
Strftime(t) ==
    LET sec == t \div TicksPerSecond
    IN  <<sec \div 86400, "_", (sec \div 3600) % 24, (sec \div 60) % 60, sec % 60>>

\* b2_client.py:150
\* f"{PDF_FOLDER_PREFIX}{alumni_id}/{linkedin_id}_{timestamp}.pdf", as the
\* sequence of its parts
B2FileName(alumni_id, linkedin_id, t) ==
    <<PDF_FOLDER_PREFIX, alumni_id, "/", linkedin_id, "_">> \o Strftime(t)
        \o <<".pdf">>

\* the job stays at rest
job_vars ==
    <<force_update, max_profiles, update_threshold_days, credentials,
      max_retries, alumni, logs, pc, alumni_list, alumni_to_process, idx,
      stats, scraper, attempt, call_gotos, profile_data, exc, exit_code,
      navigated, delay_due, rushed, login_tries,
      scrape_calls, checkpoint_hit, config_errors, aborted_at,
      pdf_stored, pdf_bytes, b2_called, blobs, store_faults, exhausted,
      counted, log_raised, site, page>>

KeyInit ==
    /\ Init
    /\ ~force_update
    /\ max_profiles = 1
    /\ credentials = [email |-> TRUE, password |-> TRUE]
    /\ max_retries = MAX_RETRIES
    /\ alumni = [i \in Ids |-> AlumniKinds[1]]
    /\ site = [i \in Ids |-> IF i % 2 = 1 THEN FullProfile ELSE BareProfile]

\* b2_client.py:148-158: one upload_pdf_bytes call that gets to upload_bytes
UploadPdfBytes ==
    /\ Len(b2_files) < MaxUploads
    /\ \E who \in UploadIdentities :
          b2_files' = Append(b2_files,
              [alumni_id |-> who[1], linkedin_id |-> who[2], at |-> now,
               file_name |-> B2FileName(who[1], who[2], now)])
    /\ now' = now
    /\ UNCHANGED job_vars

\* time passes between two calls
ClockAdvance ==
    /\ \E t \in UploadTimes : t > now /\ now' = t
    /\ b2_files' = b2_files
    /\ UNCHANGED job_vars

KeyNext == UploadPdfBytes \/ ClockAdvance

KeySpec == KeyInit /\ [][KeyNext]_vars

\* ===================================================================
\* Properties
\* ===================================================================
InSeq(x, s) == \E k \in 1..Len(s) : s[k] = x

PositionOf(x, s) == CHOOSE k \in 1..Len(s) : s[k] = x

\* rows of scraping_logs written for an alumni id
LogCount(id) == Cardinality({k \in 1..Len(logs) : logs[k].alumni_id = id})

HasErrorEntry(id) == \E k \in 1..Len(stats.errors) : stats.errors[k].alumni_id = id

HasJobError == InSeq(JobErrorEntry, stats.errors)

\* run_scraping_job has returned its statistics and main() has exited
Returned == pc = "exited"

\* C1: at the end of every run total_processed = successful + failed, the
\* skipped candidates not being part of total_processed.
C1_TotalIsSuccessfulPlusFailed ==
    Returned => stats.total_processed = stats.successful + stats.failed

\* C2: at the end of a run every candidate passed to scrape_profile has
\* exactly one scraping_logs row; a candidate dropped by the filter or
\* lacking both linkedin_url and linkedin_id has none and is never passed to
\* scrape_profile.
C2_ExactlyOneRowPerAttempt ==
    \A id \in Ids :
        /\ HasNoIdentity(alumni[id]) => scrape_calls[id] = 0
        /\ (pc # "start" /\ ~InSeq(id, alumni_to_process)) => scrape_calls[id] = 0
        /\ Returned => LogCount(id) = IF scrape_calls[id] > 0 THEN 1 ELSE 0

\* C3: a candidate whose tries all failed ends the run with exactly one
\* scraping_logs row, of status "failed", and was added to failed exactly
\* once.
C3_ExhaustedCountsOnce ==
    Returned =>
        \A id \in exhausted :
            /\ counted[id].failed = 1
            /\ LogCount(id) = 1
            /\ \A k \in 1..Len(logs) :
                  logs[k].alumni_id = id => logs[k].status = "failed"

\* C4: every candidate classified failed (its scrape or update raised, or
\* its retries were exhausted) has its error text in stats.errors, and every
\* later candidate of alumni_to_process that has an identity is scraped.
C4_FailureIsNeverFatal ==
    Returned =>
        \A id \in Ids :
            counted[id].failed > 0 =>
                /\ HasErrorEntry(id)
                /\ \A k \in 1..Len(alumni_to_process) :
                      ( /\ k > PositionOf(id, alumni_to_process)
                        /\ ~HasNoIdentity(alumni[alumni_to_process[k]]) )
                      => scrape_calls[alumni_to_process[k]] > 0

\* C5: right after the selection, without force_update the candidates kept
\* are exactly the listed ones never scraped or scraped strictly before
\* now - update_threshold_days; with force_update all listed ones are kept;
\* and only kept candidates are ever scraped.
C5_EligibilityFilter ==
    /\ pc \in {"scraper_start", "commit_return"} =>
          \A id \in Ids :
              InSeq(id, alumni_to_process) <=>
                  /\ InSeq(id, alumni_list)
                  /\ \/ force_update
                     \/ alumni[id].last_scraped_at = NoDate
                     \/ alumni[id].last_scraped_at < NowDay - update_threshold_days
    /\ \A id \in Ids : scrape_calls[id] > 0 => InSeq(id, alumni_to_process)

\* without force_update, a listed candidate scraped
\* update_threshold_days - 1 days ago is dropped while a staler one is kept
C5_Witness ==
    /\ pc = "scraper_start"
    /\ ~force_update
    /\ \E i, j \in Ids :
          /\ InSeq(i, alumni_list) /\ ~InSeq(i, alumni_to_process)
          /\ alumni[i].last_scraped_at = NowDay - (update_threshold_days - 1)
          /\ InSeq(j, alumni_to_process)
          /\ alumni[j].last_scraped_at = NowDay - update_threshold_days - 1

\* C6: main() exits 1 exactly when stats.failed > 0, that is when some
\* candidate was classified failed, and 0 in every other run.
C6_ExitCodeIffFailed ==
    pc = "exited" =>
        /\ exit_code \in {0, 1}
        /\ exit_code = 1 <=> stats.failed > 0
        /\ stats.failed > 0 <=> \E id \in Ids : counted[id].failed > 0

\* a run with a failed candidate that exited 1
C6_Witness == pc = "exited" /\ stats.failed > 0 /\ exit_code = 1

\* C7: a run that hit a top-level error (a "Job error" entry) exits non-zero.
C7_JobErrorExitsNonZero ==
    (pc = "exited" /\ HasJobError) => exit_code # 0

\* C8: once a login has landed on a checkpoint page, no further candidate is
\* scraped and no further login is tried.
C8_CheckpointIsFatal ==
    [][checkpoint_hit =>
          (scrape_calls' = scrape_calls /\ login_tries' = login_tries)]_vars

\* C9: with a credential missing, no candidate is classified as a failed
\* attempt.
C9_MissingCredentialsFailNoCandidate ==
    (~credentials.email \/ ~credentials.password) =>
        \A id \in Ids : counted[id].failed = 0

\* C10: with a credential missing, no page is ever navigated to, no login
\* sequence is started and the session never becomes authenticated.
C10_NoNavigationWithoutCredentials ==
    (~credentials.email \/ ~credentials.password) =>
        /\ ~navigated
        /\ login_tries = 0
        /\ ~scraper.logged_in

\* a finished run in which login() raised the configuration error
C10_Witness ==
    /\ pc = "exited"
    /\ ~credentials.email \/ ~credentials.password
    /\ config_errors > 0

\* C11: the PDF step never fails the attempt: whatever download, upload or
\* the PDF-URL update do, the step goes on to the success log with successful
\* incremented, failed and the error list unchanged, and pdfs_uploaded
\* unchanged when nothing was stored; the row then written has status
\* "success" and carries the step's pdf_stored.
C11_PdfFailureKeepsSuccess ==
    [][ /\ pc = "pdf" =>
              /\ pc' = "log_success"
              /\ stats'.successful = stats.successful + 1
              /\ stats'.failed = stats.failed
              /\ stats'.errors = stats.errors
              /\ ~pdf_stored' => stats'.pdfs_uploaded = stats.pdfs_uploaded
              /\ logs' = logs
        /\ (pc = "log_success" /\ logs' # logs) =>
              /\ Len(logs') = Len(logs) + 1
              /\ logs'[Len(logs')].alumni_id = alumni_to_process[idx]
              /\ logs'[Len(logs')].status = "success"
              /\ logs'[Len(logs')].pdf_stored = pdf_stored ]_vars

\* a finished run in which a blob-store or record-store call of the PDF step
\* raised, the candidate is counted successful only, and its row says
\* "success" with pdf_stored false
C11_Witness ==
    /\ pc = "exited"
    /\ store_faults > 0
    /\ stats.pdfs_uploaded = 0
    /\ stats.failed = 0
    /\ \E k \in 1..Len(logs) :
          /\ logs[k].status = "success"
          /\ ~logs[k].pdf_stored
          /\ counted[logs[k].alumni_id] = [successful |-> 1, failed |-> 0]

\* C12: once the update of a candidate whose extraction has an empty
\* job-history list has been committed, the candidate's stored job history
\* is empty.
C12_EmptyHistoryClears ==
    (pc \in {"pdf", "log_success"} /\ profile_data.job_history = << >>) =>
        alumni[alumni_to_process[idx]].job_history = << >>

\* C13: a candidate's stored job history is always either the list it had
\* before the run (every row starts with <<"j0">>) or the whole list the
\* extraction of its page produces.
C13_HistoryAllOrNothing ==
    \A id \in Ids :
        \/ alumni[id].job_history = <<"j0">>
        \/ alumni[id].job_history = site[id].job_history

\* C14: a PDF longer than 10 MiB (10 * 1024 * 1024 bytes) is rejected with no
\* blob-store call, nothing uploaded and nothing recorded as stored; a
\* non-empty PDF of exactly 10 MiB or less gets past the size check to the
\* blob store.
C14_SizeLimit ==
    [][pc = "pdf" =>
          /\ pdf_bytes' > 10 * 1024 * 1024 =>
                /\ ~b2_called'
                /\ blobs' = blobs
                /\ ~pdf_stored'
                /\ alumni' = alumni
          /\ (pdf_bytes' > 0 /\ pdf_bytes' <= 10 * 1024 * 1024) => b2_called'
       ]_vars

\* a PDF one byte over the limit was rejected for the second candidate after
\* one of exactly 10 MiB was uploaded for the first
C14_Witness ==
    /\ pc = "log_success"
    /\ pdf_bytes = 10 * 1024 * 1024 + 1
    /\ ~b2_called
    /\ blobs # << >>
    /\ stats.pdfs_uploaded = 1

\* C15: two uploads for the same candidate (same alumni id, same linkedin id)
\* made within the same clock second have the same file name, and two made
\* at times at least one second apart have different file names.
C15_KeyBySecond ==
    \A i, j \in 1..Len(b2_files) :
        ( /\ b2_files[i].alumni_id = b2_files[j].alumni_id
          /\ b2_files[i].linkedin_id = b2_files[j].linkedin_id ) =>
            /\ (b2_files[i].at \div TicksPerSecond = b2_files[j].at \div TicksPerSecond)
                  => b2_files[i].file_name = b2_files[j].file_name
            /\ (b2_files[j].at - b2_files[i].at >= TicksPerSecond)
                  => b2_files[i].file_name # b2_files[j].file_name

\* two uploads for one candidate exactly one second apart, across the turn
\* of a minute, with different file names
C15_Witness ==
    \E i, j \in 1..Len(b2_files) :
        /\ b2_files[i].alumni_id = b2_files[j].alumni_id
        /\ b2_files[i].linkedin_id = b2_files[j].linkedin_id
        /\ b2_files[i].at = 59 * TicksPerSecond
        /\ b2_files[j].at = 60 * TicksPerSecond
        /\ b2_files[i].file_name # b2_files[j].file_name

\* C16: once the session is authenticated it stays authenticated, and no
\* later step starts a login sequence, reads the credentials into a
\* configuration error or lands on a checkpoint: the login sequence runs to
\* success at most once per run, and only from an unauthenticated session.
C16_LoginOnce ==
    [][ /\ scraper.logged_in =>
              /\ scraper'.logged_in
              /\ login_tries' = login_tries
              /\ config_errors' = config_errors
              /\ checkpoint_hit' = checkpoint_hit
        /\ (~scraper.logged_in /\ scraper'.logged_in) =>
              login_tries' = login_tries + 1 ]_vars

\* a second candidate is being scraped in the session the first one's login
\* opened
C16_Witness ==
    /\ pc = "try"
    /\ scraper.logged_in
    /\ login_tries = 1
    /\ \E i, j \in Ids : i # j /\ scrape_calls[i] = 1 /\ scrape_calls[j] = 1

\* C17: every run comes to its end: run_scraping_job returns its statistics
\* with completed_at set and main() exits, whatever calls fail on the way.
C17_RunTerminates == <>(pc = "exited" /\ stats.completed_at /\ exit_code \in {0, 1})

\* a run that ended after a failed candidate, a store failure and a top-level
\* error
C17_Witness ==
    /\ pc = "exited"
    /\ stats.completed_at
    /\ stats.failed > 0
    /\ store_faults > 0
    /\ HasJobError

\* C18: the step that puts "Job error" on the error list appends exactly that
\* one entry, leaves total_processed, successful, failed, skipped and
\* pdfs_uploaded as they were, scrapes nothing and ends the run; no step
\* follows it, so no later candidate is attempted and no second entry is
\* added.
C18_JobErrorFrame ==
    [][ /\ (~HasJobError /\ HasJobError') =>
              /\ stats'.errors = Append(stats.errors, JobErrorEntry)
              /\ stats'.total_processed = stats.total_processed
              /\ stats'.successful = stats.successful
              /\ stats'.failed = stats.failed
              /\ stats'.skipped = stats.skipped
              /\ stats'.pdfs_uploaded = stats.pdfs_uploaded
              /\ scrape_calls' = scrape_calls
              /\ logs' = logs
              /\ alumni' = alumni
              /\ pc' = "exited"
        /\ HasJobError => (stats' = stats /\ scrape_calls' = scrape_calls) ]_vars

\* a run ended by a top-level error raised while the first of two candidates
\* was handled: the second was never scraped
C18_Witness ==
    /\ pc = "exited"
    /\ HasJobError
    /\ aborted_at # 0
    /\ stats.total_processed = 1
    /\ \E id \in Ids :
          /\ InSeq(id, alumni_to_process)
          /\ ~HasNoIdentity(alumni[id])
          /\ scrape_calls[id] = 0

\* C19: one scrape_profile call navigates to the profile at most max_retries
\* times; a try that completes ends the loop with that page's data, every
\* earlier try having failed; a delay has run before a further try starts
\* and no try navigates without a delay since the navigation before it; and
\* when every try failed, or max_retries is 0, the call returns no data and
\* raises nothing.
C19_BoundedRetries ==
    [][ /\ call_gotos' <= max_retries
        /\ pc = "try" =>
              /\ pc' \in {"try", "update", "scrape_none"}
              /\ call_gotos' = call_gotos + 1
              /\ rushed' = rushed
              /\ exc' = exc
        /\ (pc = "try" /\ pc' = "update") =>
              /\ profile_data' = site[alumni_to_process[idx]]
              /\ call_gotos' = attempt' + 1
        /\ (pc' = "try" /\ attempt' > 0) => ~delay_due'
        /\ pc' = "scrape_none" =>
              /\ call_gotos' = max_retries
              /\ profile_data' = NoProfile ]_vars

\* the last of the allowed tries completed after every earlier one failed
C19_Witness ==
    /\ pc = "update"
    /\ max_retries = MAX_RETRIES
    /\ attempt = MAX_RETRIES - 1
    /\ call_gotos = MAX_RETRIES
    /\ profile_data.found

\* C20: no page navigation (login page, profile page, retry, PDF page) is
\* made while the navigation before it has not been followed by a delay.
C20_DelayBetweenNavigations == ~rushed

\* C21: a run that started a browser session has closed it (page, context
\* and browser) by the time run_scraping_job has returned, after a normal
\* end of the loop and after a top-level error alike.
C21_SessionClosedAtReturn ==
    (pc = "exited" /\ scraper.started) => scraper.closed

\* the step that follows each extractor
AfterExtractor ==
    [extract_basic |-> "extract_experience",
     extract_experience |-> "extract_education",
     extract_education |-> "extract_contact",
     extract_contact |-> "update"]

\* C22: an extractor step never fails the try: it goes on to the next
\* extractor (the last one to the record update) in the same try, with no
\* retry consumed, no further navigation and no error recorded; and in the
\* dict returned, each part holds what its own elements and its own
\* exception give, whatever happened in the other parts: without an
\* exception in a part its keys are there exactly for the elements the page
\* has, and a missing element or an exception leaves keys out or lists
\* short or empty.
C22_BestEffortExtraction ==
    [][ /\ pc \in DOMAIN AfterExtractor =>
              /\ pc' = AfterExtractor[pc]
              /\ attempt' = attempt
              /\ call_gotos' = call_gotos
              /\ exc' = exc
              /\ stats' = stats
              /\ profile_data'.found
        /\ pc = "extract_contact" =>
              LET d == profile_data'
                  r == page.raises
              IN  /\ r.basic = "none" =>
                        /\ "name" \in DOMAIN d <=> page.name
                        /\ "headline" \in DOMAIN d <=> page.has_headline
                        /\ "location" \in DOMAIN d <=> page.location
                  /\ ~page.name => "name" \notin DOMAIN d
                  /\ ~page.location => "location" \notin DOMAIN d
                  /\ r.basic = "name" =>
                        {"name", "headline", "location", "current_company",
                         "current_designation"} \cap DOMAIN d = {}
                  /\ r.experience = "none" => d.job_history = page.experience
                  /\ r.experience = "section" => d.job_history = << >>
                  /\ r.experience = "item" => Len(d.job_history) < 2
                  /\ r.education = "none" => d.education_history = page.education
                  /\ r.education = "section" => d.education_history = << >>
                  /\ r.contact # "click" => ("email" \in DOMAIN d <=> page.email)
                  /\ r.contact = "click" => "email" \notin DOMAIN d ]_vars

\* the first try returned a dict although the basic-info and the education
\* extractors got exceptions: no basic key, the experience entries and the
\* email are there
C22_Witness ==
    /\ pc = "update"
    /\ attempt = 0
    /\ call_gotos = 1
    /\ page.name /\ page.raises.basic = "name"
    /\ page.raises.education = "section"
    /\ "name" \notin DOMAIN profile_data
    /\ profile_data.job_history = <<"j1", "j2">>
    /\ "email" \in DOMAIN profile_data

\* the columns the scalar update writes, by the key of the dict
ScalarColumns ==
    [name |-> "name", current_company |-> "current_company",
     current_designation |-> "current_designation", location |-> "location",
     email |-> "corporate_email"]

\* C23: the update step that completes sets last_scraped_at to the current
\* day, writes name, current_company, current_designation, location and
\* email (into corporate_email) for exactly the keys the extraction has,
\* and leaves every other one of these columns, and the identity columns,
\* as they were.
C23_ScalarFrame ==
    [][(pc = "update" /\ pc' = "pdf") =>
          LET id == alumni_to_process[idx]
              d == profile_data
          IN  /\ alumni'[id].last_scraped_at = NowDay
              /\ \A key \in DOMAIN ScalarColumns :
                    alumni'[id][ScalarColumns[key]] =
                        IF key \in DOMAIN d THEN d[key]
                        ELSE alumni[id][ScalarColumns[key]]
              /\ alumni'[id].linkedin_url = alumni[id].linkedin_url
              /\ alumni'[id].linkedin_id = alumni[id].linkedin_id
              /\ alumni'[id].linkedin_pdf_url = alumni[id].linkedin_pdf_url
              /\ \A other \in Ids \ {id} : alumni'[other] = alumni[other]
       ]_vars

\* an update from an extraction with a headline and an email but neither
\* name nor location: company, designation and email are new, name and
\* location are the old ones
C23_Witness ==
    /\ pc = "pdf"
    /\ DOMAIN profile_data \cap DOMAIN ScalarColumns =
           {"current_company", "current_designation", "email"}
    /\ alumni[1].last_scraped_at = NowDay
    /\ alumni[1].name = "old"
    /\ alumni[1].location = "old"
    /\ alumni[1].current_designation = <<"t">>
    /\ alumni[1].current_company = <<"a">>
    /\ alumni[1].corporate_email = "new"

\* t is s without its leading and trailing spaces
IsStripped(t, s) ==
    /\ t # << >> => (t[1] # " " /\ t[Len(t)] # " ")
    /\ \E i, j \in 0..Len(s) :
          /\ i + Len(t) + j = Len(s)
          /\ SubSeq(s, i + 1, i + Len(t)) = t
          /\ \A k \in 1..i : s[k] = " "
          /\ \A k \in (Len(s) - j + 1)..Len(s) : s[k] = " "

\* " at " occurs in h at position k and nowhere before
FirstAt(h, k) ==
    /\ k \in 1..(Len(h) - 3)
    /\ SubSeq(h, k, k + 3) = <<" ", "a", "t", " ">>
    /\ \A j \in 1..(k - 1) : SubSeq(h, j, j + 3) # <<" ", "a", "t", " ">>

\* C24: once the basic info of a page is extracted, a headline containing
\* " at " has given current_designation the text before the first
\* occurrence and current_company all the text after it; a headline
\* without " at " has given neither key.
C24_HeadlineSplit ==
    (pc = "extract_experience" /\ page.has_headline) =>
        LET h == page.headline
            d == profile_data
        IN  IF \E k \in 1..Len(h) : FirstAt(h, k)
            THEN \A k \in 1..Len(h) : FirstAt(h, k) =>
                    /\ {"current_designation", "current_company"} \subseteq DOMAIN d
                    /\ d.current_designation = SubSeq(h, 1, k - 1)
                    /\ d.current_company = SubSeq(h, k + 4, Len(h))
            ELSE {"current_designation", "current_company"} \cap DOMAIN d = {}

\* C24 (amended): once the basic info of a page is extracted, a headline
\* containing " at " has given current_designation the text before the first
\* occurrence and current_company all the text after it, each without its
\* leading and trailing white space; a headline without " at " has given
\* neither key.
C24_HeadlineSplitStripped ==
    (pc = "extract_experience" /\ page.has_headline) =>
        LET h == page.headline
            d == profile_data
        IN  IF \E k \in 1..Len(h) : FirstAt(h, k)
            THEN \A k \in 1..Len(h) : FirstAt(h, k) =>
                    /\ {"current_designation", "current_company"} \subseteq DOMAIN d
                    /\ IsStripped(d.current_designation, SubSeq(h, 1, k - 1))
                    /\ IsStripped(d.current_company, SubSeq(h, k + 4, Len(h)))
            ELSE {"current_designation", "current_company"} \cap DOMAIN d = {}

\* the headline " at at " was split at its first " at ": an empty
\* designation and the company "at"
C24_Witness ==
    /\ pc = "extract_experience"
    /\ page.headline = <<" ", "a", "t", " ", "a", "t", " ">>
    /\ profile_data.current_designation = << >>
    /\ profile_data.current_company = <<"a", "t">>

\* the candidates passed to scrape_profile
Attempted == {id \in Ids : scrape_calls[id] > 0}

\* C25: no candidate is ever counted both in successful and in failed, or
\* twice in either; and when the run has returned, every candidate passed
\* to scrape_profile was counted once and successful + failed is the number
\* of those candidates.
C25_CountedExactlyOnce ==
    /\ \A id \in Ids : counted[id].successful + counted[id].failed <= 1
    /\ Returned =>
          /\ \A id \in Attempted :
                counted[id].successful + counted[id].failed = 1
          /\ stats.successful + stats.failed = Cardinality(Attempted)

\* C26: a candidate counted as failed has its record as it was before the
\* run (every row starts with the scalar values "old" / <<"o">>, the history
\* <<"j0">> and no PDF url): scalar fields, history and last_scraped_at are
\* untouched, so that without force_update it is still eligible.
C26_FailedLeavesRecord ==
    \A id \in Ids :
        counted[id].failed > 0 =>
            /\ alumni[id].name = "old"
            /\ alumni[id].location = "old"
            /\ alumni[id].corporate_email = "old"
            /\ alumni[id].current_company = <<"o">>
            /\ alumni[id].current_designation = <<"o">>
            /\ alumni[id].job_history = <<"j0">>
            /\ alumni[id].last_scraped_at # NowDay
            /\ ~force_update =>
                  \/ alumni[id].last_scraped_at = NoDate
                  \/ alumni[id].last_scraped_at < NowDay - update_threshold_days

\* C27: the steps that navigate to a profile URL (a try of scrape_profile,
\* the PDF download) are only taken with the session's authenticated flag
\* set, and a profile navigation has only happened in such a session; a
\* scrape_profile call whose login did not succeed has raised without any
\* profile navigation, and nothing of that candidate was scraped or stored.
C27_ProfileOnlyWhenAuthenticated ==
    /\ pc \in {"try", "pdf"} => scraper.logged_in
    /\ call_gotos > 0 => scraper.logged_in
    /\ ~scraper.logged_in =>
          /\ pc \notin {"update", "log_success", "scrape_none"}
          /\ profile_data = NoProfile
          /\ blobs = << >>
          /\ stats.successful = 0
          /\ exhausted = {}
    /\ (pc = "except" /\ ~scraper.logged_in) =>
          exc \in {"Failed to login to LinkedIn",
                   "LinkedIn credentials not configured"}

\* the first candidate's login failed and the candidate was counted failed
\* with no profile requested; the second candidate's login succeeded and
\* its profile is about to be requested
C27_Witness ==
    /\ pc = "try"
    /\ scraper.logged_in
    /\ login_tries = 2
    /\ call_gotos = 0
    /\ idx = 2
    /\ counted[alumni_to_process[1]].failed = 1
    /\ stats.errors = <<[alumni_id |-> alumni_to_process[1],
                         text |-> "Failed to login to LinkedIn"]>>

\* C28: pdfs_uploaded is the number of PDF blobs in the blob store; right
\* after a candidate's PDF step, pdf_stored is true exactly when a blob was
\* uploaded for that candidate; and a candidate's linkedin_pdf_url is
\* changed only if a blob was uploaded for it and, right after its PDF step,
\* only with pdf_stored true.
C28_ArtifactBookkeeping ==
    /\ stats.pdfs_uploaded = Len(blobs)
    /\ pc = "log_success" =>
          (pdf_stored <=> InSeq(alumni_to_process[idx], blobs))
    /\ \A id \in Ids :
          alumni[id].linkedin_pdf_url # "none" =>
              /\ InSeq(id, blobs)
              /\ (pc = "log_success" /\ id = alumni_to_process[idx]) => pdf_stored

\* C29: once the candidates are selected, alumni_list is the first
\* max_profiles rows of the table (in the order the query returns them) and
\* alumni_to_process is taken from it; only rows of that prefix are ever
\* passed to scrape_profile, so at most max_profiles candidates are
\* attempted and a row beyond the prefix is never attempted, stale or not.
C29_LimitBeforeFilter ==
    /\ pc # "start" =>
          \/ alumni_list = << >> /\ alumni_to_process = << >> /\ HasJobError
          \/ /\ alumni_list = [i \in 1..Min(max_profiles, NumAlumni) |-> i]
             /\ \A k \in 1..Len(alumni_to_process) :
                   InSeq(alumni_to_process[k], alumni_list)
    /\ \A id \in Ids : scrape_calls[id] > 0 => id <= max_profiles
    /\ Cardinality(Attempted) <= max_profiles

\* a finished run with max_profiles = 1 on a table whose second row has
\* never been scraped and has a linkedin_url: the first row was attempted,
\* the second was not
C29_Witness ==
    /\ pc = "exited"
    /\ max_profiles = 1
    /\ ~force_update
    /\ scrape_calls[1] = 1
    /\ alumni[2].last_scraped_at = NoDate
    /\ alumni[2].linkedin_url
    /\ scrape_calls[2] = 0

\* the selection returned rows and the filter kept none of them
NothingEligible ==
    pc \in {"commit_return", "exited"} /\ alumni_list # << >>
        /\ alumni_to_process = << >>

\* what C30 and its amended form share: the counters, the session and the
\* login
NothingToDoCounters ==
    /\ stats.skipped = Len(alumni_list)
    /\ stats.total_processed = 0
    /\ stats.successful = 0
    /\ stats.failed = 0
    /\ stats.pdfs_uploaded = 0
    /\ stats.completed_at
    /\ ~scraper.started
    /\ login_tries = 0
    /\ ~navigated
    /\ logs = << >>

\* C30: when the filter keeps none of the selected rows, the run returns
\* with skipped = the number of selected rows, total_processed, successful,
\* failed and pdfs_uploaded 0, an empty error list and completed_at set, and
\* no browser session was started and no login tried.
C30_NothingToDo ==
    NothingEligible => (NothingToDoCounters /\ stats.errors = << >>)

\* C30 (amended): when the filter keeps none of the selected rows, the run
\* returns with skipped = the number of selected rows, total_processed,
\* successful, failed and pdfs_uploaded 0 and completed_at set, and no
\* browser session was started and no login tried; the error list is empty,
\* or holds the one "Job error" entry of a record-store session whose
\* closing commit raised.
C30_NothingToDoOrCommitError ==
    NothingEligible =>
        /\ NothingToDoCounters
        /\ \/ stats.errors = << >>
           \/ pc = "exited" /\ stats.errors = <<JobErrorEntry>> /\ store_faults > 0

\* a finished run whose two selected rows were both scraped recently enough
C30_Witness ==
    /\ pc = "exited"
    /\ ~force_update
    /\ Len(alumni_list) = 2
    /\ alumni_to_process = << >>
    /\ stats.skipped = 2
    /\ stats.errors = << >>
    /\ exit_code = 0
    /\ ~scraper.started
====
